---- MODULE Spec2Model ----
(***************************************************************************)
(* Student CRUD service: the student table, the StudentCreate /            *)
(* StudentRead / StudentUpdate schemas (models.py), the gateway functions  *)
(* of crud.py and the request handlers of better_app.py and app.py.        *)
(*                                                                         *)
(* A JSON object or a model instance is a function from the field names it *)
(* carries to values; a field that was not sent is not in its DOMAIN.      *)
(* JSON null / Python None is Null, and a JSON value that is neither a     *)
(* string nor null (the list of test_create_hero_invalid) is NonStr.       *)
(***************************************************************************)
EXTENDS Integers, Sequences, FiniteSets, TLC

VARIABLES table,        \* rows of the student table, in rowid order
          pc,           \* "idle" | "responded"
          req,          \* the request that was handled
          resp,         \* the response to it
          before,       \* history: the table when the request arrived
          created,      \* history: per key, the StudentCreate of its successful create,
                        \*   until an update or delete of that key succeeds
          deletedKeys,  \* history: keys deleted successfully and not created since
          sess          \* concurrent specification: the requests in flight

vars == <<table, pc, req, resp, before, created, deletedKeys, sess>>

----------------------------------------------------------------------------
(* Bounds *)

\* fields of a request body that may fail validation
MaxDefects == 2

\* the strings clients send, field by field (the values of the tests); the
\* code copies field values and compares only matric_number, and values with
\* None, so two values per field show every change it can make
MatricNumbers == {"21cg029882", "21cg029883"}

Strings(f) ==
    CASE f = "matric_number" -> MatricNumbers
      [] f = "first_name" -> {"Adebola", "Oluwaferanmi"}
      [] f = "last_name" -> {"Odufuwa"}
      [] f = "email" -> {"adeboladuf@gmail.com"}
      [] f = "password" -> {"someone", "password"}

----------------------------------------------------------------------------
(* Schema layer: models.py *)

Null == "<null>"
NonStr == "<list>"

IsStr(v) == v \notin {Null, NonStr}

StudentBase == {"matric_number", "first_name", "last_name", "email"}
Student == StudentBase \cup {"password"}
StudentCreate == StudentBase \cup {"password"}
StudentRead == StudentBase
StudentUpdate == {"first_name", "last_name", "email", "password"}

\* the fields declared "str | None = None" in each schema
OptionalBase == {"email"}
OptionalUpdate == StudentUpdate

\* the columns of the student table that accept NULL
Nullable == {"email"}

EmptyObj == [f \in {} |-> Null]

\* the object b with field f set to v
With(b, f, v) == [g \in DOMAIN b \cup {f} |-> IF g = f THEN v ELSE b[g]]

\* FieldOk, were every value that is sent accepted
FieldOkAnyValue(body, f, optional) == f \in DOMAIN body \/ optional

\* pydantic validation of one field: "str" must be sent and be a string,
\* "str | None = None" may be left out or be null
FieldOk(body, f, optional) ==
    IF f \in DOMAIN body
    THEN IsStr(body[f]) \/ (optional /\ body[f] = Null)
    ELSE optional

\* the fields of body that fail validation against StudentCreate
CreateErrors(body) == {f \in StudentCreate : ~FieldOk(body, f, f \in OptionalBase)}

\* the fields of body that fail validation against StudentUpdate
UpdateErrors(body) == {f \in StudentUpdate : ~FieldOk(body, f, f \in OptionalUpdate)}

ValidCreate(body) == CreateErrors(body) = {}

ValidUpdate(body) == UpdateErrors(body) = {}

\* StudentCreate(**body): unset fields take their default (email = None)
ParseCreate(body) ==
    [f \in StudentCreate |-> IF f \in DOMAIN body THEN body[f] ELSE Null]

\* ParseUpdate, were matric_number a field of StudentUpdate
ParseUpdateWithKey(body) ==
    [data |-> [f \in (StudentUpdate \cup {"matric_number"}) \cap DOMAIN body |-> body[f]],
     fields_set |-> (StudentUpdate \cup {"matric_number"}) \cap DOMAIN body]

\* StudentUpdate(**body): every field defaults to None; fields_set remembers
\* the fields the client sent
ParseUpdate(body) ==
    [data |-> [f \in StudentUpdate |-> IF f \in DOMAIN body THEN body[f] ELSE Null],
     fields_set |-> StudentUpdate \cap DOMAIN body]

\* model_validate, were the optional email not copied
model_validate_without_email(student) ==
    [f \in Student |-> IF f = "email" THEN Null ELSE student[f]]

\* Student.model_validate(student)
model_validate(student) == [f \in Student |-> student[f]]

\* student.model_dump(exclude_unset=True)
model_dump(student) == [f \in student.fields_set |-> student.data[f]]

\* ReadView, were the response model the table model
ReadViewWithPassword(row) == row

\* response_model=StudentRead: the response keeps the fields of StudentRead
ReadView(row) == [f \in StudentRead |-> row[f]]

----------------------------------------------------------------------------
(* The table and the session statements the gateway issues *)

RECURSIVE IndexOf(_, _, _)
IndexOf(t, k, i) ==
    IF i > Len(t) THEN 0
    ELSE IF t[i].matric_number = k THEN i
    ELSE IndexOf(t, k, i + 1)

\* session.get(Student, matric_number): index of the row, 0 when there is none
Find(t, k) == IndexOf(t, k, 1)

\* the row session.get(Student, k) loads, when there is one
Has(t, k) == Find(t, k) # 0
Row(t, k) == t[Find(t, k)]

RemoveAt(t, i) == [j \in 1..(Len(t) - 1) |-> IF j < i THEN t[j] ELSE t[j + 1]]

\* the constraints of the student table: primary key and NOT NULL columns
NotNullOk(row) == \A f \in Student \ Nullable : row[f] # Null

\* INSERT of session.add(db_student); session.commit(): the primary key
\* rejects a second row with the same matric_number (IntegrityError)
InsertOk(t, row) == Find(t, row.matric_number) = 0 /\ NotNullOk(row)

\* what a gateway call leaves behind: the table, and what it returned
\* ("raise": the call raised and the session rolled back)
Result(t, out, student, students) ==
    [table |-> t, out |-> out, student |-> student, students |-> students]

----------------------------------------------------------------------------
(* Persistence gateway: crud.py *)

create_students(t, student) ==
    LET db_student == model_validate(student)
    IN  IF InsertOk(t, db_student)
        THEN Result(Append(t, db_student), "student", db_student, <<>>)
        ELSE Result(t, "raise", EmptyObj, <<>>)

\* get_students, were the first row left out
get_students_skip_first(t) ==
    Result(t, "students", EmptyObj, IF t = <<>> THEN t ELSE Tail(t))

get_students(t) == Result(t, "students", EmptyObj, t)

get_student_by_matric_number(t, matric_number) ==
    LET i == Find(t, matric_number)
    IN  IF i = 0 THEN Result(t, "none", EmptyObj, <<>>)
        ELSE Result(t, "student", t[i], <<>>)

\* the for loop of setattr(db_student, key, value)
SetAttrs(db_student, info_to_update) ==
    [f \in Student |-> IF f \in DOMAIN info_to_update
                       THEN info_to_update[f] ELSE db_student[f]]

\* update_student, were a missing row inserted from the patch
crud_update_student_upsert(t, matric_number, student_info_to_update) ==
    LET i == Find(t, matric_number)
        info_to_update == model_dump(student_info_to_update)
        blank == [f \in Student |-> IF f = "matric_number" THEN matric_number ELSE Null]
        db_student == SetAttrs(IF i = 0 THEN blank ELSE t[i], info_to_update)
    IN  IF i = 0
        THEN Result(Append(t, db_student), "student", db_student, <<>>)
        ELSE IF NotNullOk(db_student)
        THEN Result([t EXCEPT ![i] = db_student], "student", db_student, <<>>)
        ELSE Result(t, "raise", EmptyObj, <<>>)

crud_update_student(t, matric_number, student_info_to_update) ==
    LET i == Find(t, matric_number)
        info_to_update == model_dump(student_info_to_update)
        db_student == SetAttrs(t[i], info_to_update)
    IN  IF i = 0 THEN Result(t, "none", EmptyObj, <<>>)
        ELSE IF NotNullOk(db_student)
        THEN Result([t EXCEPT ![i] = db_student], "student", db_student, <<>>)
        ELSE Result(t, "raise", EmptyObj, <<>>)

\* delete_student, were every row deleted
crud_delete_student_all(t, matric_number) ==
    LET i == Find(t, matric_number)
    IN  IF i = 0 THEN Result(t, "none", EmptyObj, <<>>)
        ELSE Result(<<>>, "ok", EmptyObj, <<>>)

\* delete_student, were the commit of the DELETE left out
crud_delete_student_uncommitted(t, matric_number) ==
    LET i == Find(t, matric_number)
    IN  IF i = 0 THEN Result(t, "none", EmptyObj, <<>>)
        ELSE Result(t, "ok", EmptyObj, <<>>)

crud_delete_student(t, matric_number) ==
    LET i == Find(t, matric_number)
    IN  IF i = 0 THEN Result(t, "none", EmptyObj, <<>>)
        ELSE Result(RemoveAt(t, i), "ok", EmptyObj, <<>>)

----------------------------------------------------------------------------
(* Responses *)

Response(status, kind, student, students, detail) ==
    [status |-> status, kind |-> kind, student |-> student,
     students |-> students, detail |-> detail]

NoResp == Response(0, "none", EmptyObj, <<>>, "")

\* response_model=StudentRead
StudentResponse(row) == Response(200, "student", ReadView(row), <<>>, "")

\* response_model=list[StudentRead]
StudentsResponse(rows) ==
    Response(200, "students", EmptyObj, [i \in 1..Len(rows) |-> ReadView(rows[i])], "")

OkResponse == Response(200, "ok", EmptyObj, <<>>, "")

\* raise HTTPException(status_code=..., detail=...)
HTTPException(status_code, detail) ==
    Response(status_code, "detail", EmptyObj, <<>>, detail)

\* the framework's answer to a body that fails validation
ValidationError == Response(422, "detail", EmptyObj, <<>>, "validation error")

\* the framework's answer to an exception no handler catches
ServerError == Response(500, "error", EmptyObj, <<>>, "Internal Server Error")

HTTP_400_BAD_REQUEST == 400

\* what a handler leaves behind: the table and the response
Handled(t, response) == [table |-> t, resp |-> response]

----------------------------------------------------------------------------
(* Request handlers: better_app.py, on top of crud.py *)

better_create_student(t, student) ==
    LET r == create_students(t, student)
    IN  IF r.out = "raise" THEN Handled(r.table, ServerError)
        ELSE Handled(r.table, StudentResponse(r.student))

better_read_students(t) ==
    LET r == get_students(t)
    IN  Handled(r.table, StudentsResponse(r.students))

better_read_student(t, matric_number) ==
    LET r == get_student_by_matric_number(t, matric_number)
    IN  IF r.out = "none"
        THEN Handled(r.table, HTTPException(HTTP_400_BAD_REQUEST, "Student not found"))
        ELSE Handled(r.table, StudentResponse(r.student))

better_update_student(t, matric_number, student) ==
    LET r == crud_update_student(t, matric_number, student)
    IN  IF r.out = "raise" THEN Handled(r.table, ServerError)
        ELSE IF r.out = "none"
        THEN Handled(r.table, HTTPException(404, "Student not found"))
        ELSE Handled(r.table, StudentResponse(r.student))

better_delete_student(t, matric_number) ==
    LET r == crud_delete_student(t, matric_number)
    IN  IF r.out = "none"
        THEN Handled(r.table, HTTPException(404, "Student not found"))
        ELSE Handled(r.table, OkResponse)

----------------------------------------------------------------------------
(* Request handlers: app.py, which talks to the session itself *)

app_create_student(t, student) ==
    LET db_student == model_validate(student)
    IN  IF InsertOk(t, db_student)
        THEN Handled(Append(t, db_student), StudentResponse(db_student))
        ELSE Handled(t, ServerError)

app_read_students(t) == Handled(t, StudentsResponse(t))

app_read_student(t, matric_number) ==
    LET i == Find(t, matric_number)
    IN  IF i = 0
        THEN Handled(t, HTTPException(HTTP_400_BAD_REQUEST, "Student not found"))
        ELSE Handled(t, StudentResponse(t[i]))

app_update_student(t, matric_number, student) ==
    LET i == Find(t, matric_number)
        student_data == model_dump(student)
        db_student == SetAttrs(t[i], student_data)
    IN  IF i = 0
        THEN Handled(t, HTTPException(404, "Student not found"))
        ELSE IF NotNullOk(db_student)
        THEN Handled([t EXCEPT ![i] = db_student], StudentResponse(db_student))
        ELSE Handled(t, ServerError)

app_delete_student(t, matric_number) ==
    LET i == Find(t, matric_number)
    IN  IF i = 0
        THEN Handled(t, HTTPException(404, "Student not found"))
        ELSE Handled(RemoveAt(t, i), OkResponse)

----------------------------------------------------------------------------
(* Requests *)

Request(op, key, body) == [op |-> op, key |-> key, body |-> body]

NoReq == Request("none", Null, EmptyObj)

\* the JSON values a client may send for a field
JsonVals(f) == Strings(f) \cup {Null, NonStr}

\* the JSON objects over the fields FS
RECURSIVE Bodies(_)
Bodies(FS) ==
    IF FS = {} THEN {EmptyObj}
    ELSE LET f == CHOOSE g \in FS : TRUE
             rest == Bodies(FS \ {f})
         IN  rest \cup {With(b, f, v) : b \in rest, v \in JsonVals(f)}

CreateBodies ==
    {b \in Bodies(StudentCreate) : Cardinality(CreateErrors(b)) <= MaxDefects}

\* a patch may carry matric_number: StudentUpdate does not declare it
UpdateBodies ==
    {b \in Bodies(Student) : Cardinality(UpdateErrors(b)) <= MaxDefects}

\* POST /student
CreateRequests == {Request("create", Null, b) : b \in CreateBodies}
\* GET /students
ListRequests == {Request("list", Null, EmptyObj)}
\* GET /students/{matric_number}
GetRequests == {Request("get", k, EmptyObj) : k \in MatricNumbers}
\* PATCH /students/{matric_number}
UpdateRequests == {Request("update", k, b) : k \in MatricNumbers, b \in UpdateBodies}
\* DELETE /students/{matric_number}
DeleteRequests == {Request("delete", k, EmptyObj) : k \in MatricNumbers}

\* the requests whose body fits the handler's parameter, and the others
ValidCreateRequests == {r \in CreateRequests : ValidCreate(r.body)}
ValidUpdateRequests == {r \in UpdateRequests : ValidUpdate(r.body)}
InvalidRequests ==
    (CreateRequests \ ValidCreateRequests) \cup (UpdateRequests \ ValidUpdateRequests)

----------------------------------------------------------------------------
(* Sequential specification: one request at a time *)

Init ==
    /\ table = <<>>
    /\ pc = "idle"
    /\ req = NoReq
    /\ resp = NoResp
    /\ before = <<>>
    /\ created = EmptyObj
    /\ deletedKeys = {}
    /\ sess = <<>>

\* request r arrives and its handler returns h
Finish(r, h) ==
    /\ pc' = "responded"
    /\ req' = r
    /\ resp' = h.resp
    /\ table' = h.table
    /\ before' = table
    /\ created' =
         IF r.op = "create" /\ h.resp.status = 200
         THEN With(created, r.body.matric_number, ParseCreate(r.body))
         ELSE IF r.op \in {"update", "delete"} /\ h.resp.status = 200
              THEN [k \in DOMAIN created \ {r.key} |-> created[k]]
              ELSE created
    /\ deletedKeys' =
         IF r.op = "delete" /\ h.resp.status = 200 THEN deletedKeys \cup {r.key}
         ELSE IF r.op = "create" /\ h.resp.status = 200
              THEN deletedKeys \ {r.body.matric_number}
              ELSE deletedKeys
    /\ UNCHANGED sess

\* the framework rejects a body that does not fit the handler's parameter
\* (student: StudentCreate, student: StudentUpdate) before the handler runs
RequestValidation ==
    /\ pc = "idle"
    /\ \E r \in InvalidRequests : Finish(r, Handled(table, ValidationError))

BetterCreateStudent ==
    /\ pc = "idle"
    /\ \E r \in ValidCreateRequests :
          Finish(r, better_create_student(table, ParseCreate(r.body)))

BetterReadStudents ==
    /\ pc = "idle"
    /\ \E r \in ListRequests : Finish(r, better_read_students(table))

BetterReadStudent ==
    /\ pc = "idle"
    /\ \E r \in GetRequests : Finish(r, better_read_student(table, r.key))

BetterUpdateStudent ==
    /\ pc = "idle"
    /\ \E r \in ValidUpdateRequests :
          Finish(r, better_update_student(table, r.key, ParseUpdate(r.body)))

BetterDeleteStudent ==
    /\ pc = "idle"
    /\ \E r \in DeleteRequests : Finish(r, better_delete_student(table, r.key))

AppCreateStudent ==
    /\ pc = "idle"
    /\ \E r \in ValidCreateRequests :
          Finish(r, app_create_student(table, ParseCreate(r.body)))

AppReadStudents ==
    /\ pc = "idle"
    /\ \E r \in ListRequests : Finish(r, app_read_students(table))

AppReadStudent ==
    /\ pc = "idle"
    /\ \E r \in GetRequests : Finish(r, app_read_student(table, r.key))

AppUpdateStudent ==
    /\ pc = "idle"
    /\ \E r \in ValidUpdateRequests :
          Finish(r, app_update_student(table, r.key, ParseUpdate(r.body)))

AppDeleteStudent ==
    /\ pc = "idle"
    /\ \E r \in DeleteRequests : Finish(r, app_delete_student(table, r.key))

\* the client receives the response; the request's session is closed
Deliver ==
    /\ pc = "responded"
    /\ pc' = "idle"
    /\ req' = NoReq
    /\ resp' = NoResp
    /\ before' = table
    /\ UNCHANGED <<table, created, deletedKeys, sess>>

Next ==
    \/ RequestValidation
    \/ BetterCreateStudent
    \/ BetterReadStudents
    \/ BetterReadStudent
    \/ BetterUpdateStudent
    \/ BetterDeleteStudent
    \/ AppCreateStudent
    \/ AppReadStudents
    \/ AppReadStudent
    \/ AppUpdateStudent
    \/ AppDeleteStudent
    \/ Deliver

Spec == Init /\ [][Next]_vars

----------------------------------------------------------------------------
(* Concurrent specification: two requests on one key, each in its own      *)
(* session, interleaved at the statements crud.py sends to the database.   *)
(* session.get is a SELECT, session.commit() flushes the pending INSERT,   *)
(* UPDATE or DELETE, and session.refresh is a second SELECT; crud.py takes *)
(* no lock, so the other request's statements may run in between.          *)

Sessions == {1, 2}

\* fields a patch of a concurrent request may carry
MaxPatchFields == 1

ConcRequests(k) ==
    {r \in ValidCreateRequests : r.body.matric_number = k}
    \cup {r \in ValidUpdateRequests :
             r.key = k /\ Cardinality(DOMAIN r.body) <= MaxPatchFields}
    \cup {r \in DeleteRequests : r.key = k}

\* the tables a request may find: no row, or the row of an earlier create
ConcTables(k) ==
    {<<>>} \cup {<<model_validate(ParseCreate(r.body))>> :
                    r \in {q \in ValidCreateRequests : q.body.matric_number = k}}

Session(r, at, loaded, pending, response) ==
    [req |-> r, pc |-> at, loaded |-> loaded, pending |-> pending, resp |-> response]

InitConc ==
    /\ pc = "idle"
    /\ req = NoReq
    /\ resp = NoResp
    /\ created = EmptyObj
    /\ deletedKeys = {}
    /\ \E k \in MatricNumbers :
          /\ table \in ConcTables(k)
          /\ sess \in [Sessions -> {Session(r, "start", EmptyObj, EmptyObj, NoResp) :
                                      r \in ConcRequests(k)}]
    /\ before = table

Done(s, response) == [sess EXCEPT ![s].pc = "done", ![s].resp = response]

\* db_student = session.get(Student, matric_number) of update_student and
\* delete_student, then the setattr loop of update_student
ConcSessionGet(s) ==
    /\ sess[s].pc = "start"
    /\ sess[s].req.op \in {"update", "delete"}
    /\ LET k == sess[s].req.key
       IN  IF ~Has(table, k)
           THEN sess' = Done(s, HTTPException(404, "Student not found"))
           ELSE sess' = [sess EXCEPT
                    ![s].pc = "loaded",
                    ![s].loaded = Row(table, k),
                    ![s].pending =
                        IF sess[s].req.op = "update"
                        THEN SetAttrs(Row(table, k),
                                      model_dump(ParseUpdate(sess[s].req.body)))
                        ELSE Row(table, k)]
    /\ UNCHANGED <<table, pc, req, resp, before, created, deletedKeys>>

\* session.add(db_student); session.commit() of update_student: an UPDATE of
\* the attributes that changed, WHERE matric_number is the loaded row's; no
\* statement when nothing changed; StaleDataError when no row matches
ConcCommitUpdate(s) ==
    /\ sess[s].pc = "loaded"
    /\ sess[s].req.op = "update"
    /\ LET k == sess[s].req.key
           changed == {f \in Student : sess[s].pending[f] # sess[s].loaded[f]}
           i == Find(table, k)
           row == [f \in Student |-> IF f \in changed THEN sess[s].pending[f]
                                     ELSE table[i][f]]
       IN  IF changed = {}
           THEN /\ sess' = [sess EXCEPT ![s].pc = "committed"]
                /\ table' = table
           ELSE IF i = 0 \/ ~NotNullOk(row)
           THEN /\ sess' = Done(s, ServerError)
                /\ table' = table
           ELSE /\ sess' = [sess EXCEPT ![s].pc = "committed"]
                /\ table' = [table EXCEPT ![i] = row]
    /\ UNCHANGED <<pc, req, resp, before, created, deletedKeys>>

\* session.delete(student); session.commit() of delete_student: a DELETE
\* WHERE matric_number is the loaded row's; a DELETE that matches no row
\* only warns
ConcCommitDelete(s) ==
    /\ sess[s].pc = "loaded"
    /\ sess[s].req.op = "delete"
    /\ LET i == Find(table, sess[s].req.key)
       IN  table' = IF i = 0 THEN table ELSE RemoveAt(table, i)
    /\ sess' = Done(s, OkResponse)
    /\ UNCHANGED <<pc, req, resp, before, created, deletedKeys>>

\* session.add(db_student); session.commit() of create_students: an INSERT
ConcCommitInsert(s) ==
    /\ sess[s].pc = "start"
    /\ sess[s].req.op = "create"
    /\ LET db_student == model_validate(ParseCreate(sess[s].req.body))
       IN  IF InsertOk(table, db_student)
           THEN /\ table' = Append(table, db_student)
                /\ sess' = [sess EXCEPT ![s].pc = "committed"]
           ELSE /\ table' = table
                /\ sess' = Done(s, ServerError)
    /\ UNCHANGED <<pc, req, resp, before, created, deletedKeys>>

\* session.refresh(db_student): a SELECT of the row; InvalidRequestError
\* when it is gone
ConcRefresh(s) ==
    /\ sess[s].pc = "committed"
    /\ LET k == IF sess[s].req.op = "create" THEN sess[s].req.body.matric_number
                ELSE sess[s].req.key
       IN  IF Has(table, k)
           THEN sess' = Done(s, StudentResponse(Row(table, k)))
           ELSE sess' = Done(s, ServerError)
    /\ UNCHANGED <<table, pc, req, resp, before, created, deletedKeys>>

NextConc ==
    \E s \in Sessions :
        \/ ConcSessionGet(s)
        \/ ConcCommitUpdate(s)
        \/ ConcCommitDelete(s)
        \/ ConcCommitInsert(s)
        \/ ConcRefresh(s)

SpecConc == InitConc /\ [][NextConc]_vars

----------------------------------------------------------------------------
(* Claims on the sequential specification *)

Responded(op) == pc = "responded" /\ req.op = op

NotFoundStatus == 400..499

\* a row without its password, as the tests compare it
MinusPassword(row) == [f \in DOMAIN row \ {"password"} |-> row[f]]

\* C1 (as claimed): update_student on a stored key, with any patch the
\* update view accepts, leaves the row with exactly the patch's fields set to
\* the patch's values and every other field as it was.
C1_PatchSetsExactlyItsFields ==
    (Responded("update") /\ ValidUpdate(req.body) /\ Has(before, req.key)) =>
        /\ Has(table, req.key)
        /\ \A f \in Student :
              Row(table, req.key)[f] =
                  IF f \in StudentUpdate \cap DOMAIN req.body THEN req.body[f]
                  ELSE Row(before, req.key)[f]

\* C2: no response of create, list, get-by-key or update carries a password:
\* a student in a response body has the fields of the read view and no other.
C2_NoPasswordInResponse ==
    pc = "responded" =>
        /\ resp.kind = "student" => DOMAIN resp.student = StudentRead
        /\ resp.kind # "student" => DOMAIN resp.student = {}
        /\ \A i \in 1..Len(resp.students) : DOMAIN resp.students[i] = StudentRead
        /\ (req.op \in {"create", "get", "update"} /\ resp.status = 200)
              => resp.kind = "student"
        /\ (req.op = "list" /\ resp.status = 200) => resp.kind = "students"

C2_Witness ==
    /\ Responded("update") /\ resp.status = 200
    /\ "password" \in DOMAIN req.body
    /\ Row(table, req.key).password = req.body.password
    /\ Row(before, req.key).password # req.body.password

\* C3: the response of a successful create is the creation input minus its
\* password, and a get-by-key of a created key, with no successful update or
\* delete of that key in between, answers the input's read-view fields.
C3_CreateThenGetRoundTrip ==
    /\ (Responded("create") /\ resp.status = 200) =>
          /\ resp.kind = "student"
          /\ resp.student = MinusPassword(ParseCreate(req.body))
    /\ (Responded("get") /\ req.key \in DOMAIN created) =>
          /\ resp.status = 200
          /\ resp.kind = "student"
          /\ \A f \in {"matric_number", "first_name", "last_name", "email"} :
                resp.student[f] = created[req.key][f]

C3_Witness ==
    /\ Responded("get") /\ req.key \in DOMAIN created
    /\ Len(table) = 2
    /\ created[req.key].email # Null

\* C4: a successful delete removes the row; the key stays out of the table
\* until a create with that key succeeds, and a get-by-key of it answers the
\* not-found response.
C4_DeleteFinality ==
    /\ (Responded("delete") /\ resp.status = 200) =>
          /\ resp = OkResponse
          /\ Has(before, req.key)
          /\ ~Has(table, req.key)
    /\ \A k \in deletedKeys : ~Has(table, k)
    /\ (Responded("get") /\ req.key \in deletedKeys) =>
          /\ resp.status \in NotFoundStatus
          /\ resp.kind = "detail"
          /\ resp.detail = "Student not found"

C4_Witness ==
    /\ Responded("get") /\ req.key \in deletedKeys
    /\ Len(table) = 1

\* C5: get-by-key, update and delete of a key that is not stored: the gateway
\* returns None, the handler answers a client error with detail "Student not
\* found", and the table is as it was (update creates no row).
C5_NotFoundSymmetry ==
    (/\ pc = "responded"
     /\ \/ req.op \in {"get", "delete"}
        \/ req.op = "update" /\ ValidUpdate(req.body)
     /\ ~Has(before, req.key)) =>
        /\ resp.status \in NotFoundStatus
        /\ resp.kind = "detail"
        /\ resp.detail = "Student not found"
        /\ table = before
        /\ get_student_by_matric_number(before, req.key).out = "none"
        /\ crud_update_student(before, req.key, ParseUpdate(req.body)).out = "none"
        /\ crud_update_student(before, req.key, ParseUpdate(req.body)).table = before
        /\ crud_delete_student(before, req.key).out = "none"
        /\ crud_delete_student(before, req.key).table = before

C5_Witness ==
    /\ Responded("update") /\ ValidUpdate(req.body)
    /\ DOMAIN req.body # {}
    /\ ~Has(before, req.key)
    /\ Len(before) = 1

\* C6 (as claimed): a create whose matric_number is already stored is answered
\* with a client error (4xx), and the stored row is left as it was.
C6_DuplicateKeyIsClientError ==
    (Responded("create") /\ ValidCreate(req.body)
        /\ Has(before, req.body.matric_number)) =>
        /\ resp.status \in 400..499
        /\ table = before

\* the creation payloads C8 is about: a required field is missing, or a
\* field carries a value that is not a string (null is allowed for email)
C8_Mismatch(body) ==
    \/ \E f \in {"matric_number", "first_name", "last_name", "password"} :
          f \notin DOMAIN body
    \/ \E f \in DOMAIN body : body[f] = NonStr
    \/ \E f \in DOMAIN body \ {"email"} : body[f] = Null

\* C8: a creation payload that does not match the creation view is answered
\* 422 and the table is as it was.
C8_InvalidCreateRejected ==
    (Responded("create") /\ C8_Mismatch(req.body)) =>
        /\ resp.status = 422
        /\ table = before

C8_Witness ==
    /\ Responded("create")
    /\ DOMAIN req.body = {"matric_number", "first_name"}
    /\ resp.status = 422
    /\ Len(table) = 1

\* C9: list answers 200 with one read view per stored row, in the rows'
\* order, each the row minus its password (the empty sequence for the empty
\* table), and leaves the table as it was.
C9_ListReturnsEveryRow ==
    Responded("list") =>
        /\ resp.status = 200
        /\ resp.kind = "students"
        /\ Len(resp.students) = Len(table)
        /\ \A i \in 1..Len(table) : resp.students[i] = MinusPassword(table[i])
        /\ table = before

C9_Witness ==
    /\ Responded("list")
    /\ Len(table) = 2
    /\ resp.students[1] # resp.students[2]

\* C10 (as claimed): GET /students/{matric_number} of a key that is not
\* stored answers 404 with detail "Student not found", as PATCH and DELETE do.
C10_GetMissingIs404 ==
    (Responded("get") /\ ~Has(before, req.key)) =>
        /\ resp.status = 404
        /\ resp.detail = "Student not found"

\* C11 (as claimed): an update of a stored key whose patch carries null for
\* a field is not rejected: it answers the updated student, every field sent
\* as null is stored as null, and a field that was not sent keeps its value.
C11_ExplicitNullIsStored ==
    (Responded("update") /\ ValidUpdate(req.body) /\ Has(before, req.key)) =>
        /\ resp.status = 200
        /\ resp.kind = "student"
        /\ Has(table, req.key)
        /\ \A f \in StudentUpdate \cap DOMAIN req.body :
              req.body[f] = Null => Row(table, req.key)[f] = Null
        /\ \A f \in StudentUpdate \ DOMAIN req.body :
              Row(table, req.key)[f] = Row(before, req.key)[f]

\* the matric_numbers of the rows of t, in the rows' order
KeysOf(t) == [i \in 1..Len(t) |-> t[i].matric_number]

\* C12: no two rows of the table have the same matric_number, and no request
\* changes the key of a row: a successful create adds its key, a successful
\* delete removes its key, and every other request (an update whose patch
\* carries a matric_number included) leaves the rows' keys as they were.
C12_KeyUniqueAndImmutable ==
    /\ \A i, j \in 1..Len(table) :
          i # j => table[i].matric_number # table[j].matric_number
    /\ pc = "responded" =>
          KeysOf(table) =
              IF req.op = "create" /\ resp.status = 200
              THEN Append(KeysOf(before), req.body.matric_number)
              ELSE IF req.op = "delete" /\ resp.status = 200
              THEN SelectSeq(KeysOf(before), LAMBDA k : k # req.key)
              ELSE KeysOf(before)

C12_Witness ==
    /\ Responded("update") /\ resp.status = 200
    /\ "matric_number" \in DOMAIN req.body
    /\ req.body.matric_number \in MatricNumbers \ {req.key}
    /\ "first_name" \in DOMAIN req.body
    /\ Row(table, req.key).first_name # Row(before, req.key).first_name
    /\ Len(table) = 2

\* the key a request is addressed to (none when a create carries no key)
C13_Target ==
    IF req.op = "create"
    THEN (IF "matric_number" \in DOMAIN req.body THEN req.body.matric_number ELSE Null)
    ELSE req.key

\* C13: a create, get-by-key, update or delete addressed to a key leaves the
\* row of every other key as it was: none added, removed or modified, whether
\* the request succeeds or not.
C13_OtherKeysUntouched ==
    (pc = "responded" /\ req.op \in {"create", "get", "update", "delete"}) =>
        \A k \in MatricNumbers \ {C13_Target} :
            /\ Has(table, k) = Has(before, k)
            /\ Has(before, k) => Row(table, k) = Row(before, k)

C13_Witness ==
    /\ Responded("delete") /\ resp.status = 200
    /\ Len(before) = 2
    /\ before[1].matric_number = req.key
    /\ Len(table) = 1

----------------------------------------------------------------------------
(* Claims on the concurrent specification *)

\* the handler of better_app.py run alone on table t
Serve(t, r) ==
    CASE r.op = "create" -> better_create_student(t, ParseCreate(r.body))
      [] r.op = "update" -> better_update_student(t, r.key, ParseUpdate(r.body))
      [] r.op = "delete" -> better_delete_student(t, r.key)

\* the table and the two responses when request a runs to its end before b
Serial(a, b) ==
    LET first == Serve(before, sess[a].req)
        second == Serve(first.table, sess[b].req)
    IN  [table |-> second.table,
         resp |-> [s \in Sessions |-> IF s = a THEN first.resp ELSE second.resp]]

\* the pairs of concurrent requests C7 names
C7_Pairs == {{"update"}, {"update", "delete"}, {"delete"}, {"create"}}

\* C7 (as claimed): when two requests on one key (update/update,
\* update/delete, delete/delete, create/create) are both done, the table and
\* the two responses are those of one of the two serial orders of the calls.
C7_EqualsSomeSerialOrder ==
    (/\ \A s \in Sessions : sess[s].pc = "done"
     /\ {sess[s].req.op : s \in Sessions} \in C7_Pairs) =>
        [table |-> table, resp |-> [s \in Sessions |-> sess[s].resp]]
            \in {Serial(1, 2), Serial(2, 1)}

====
